---- MODULE Spec2Model ----
(***************************************************************************)
(* Model of euxfel_karabo_bridge/simulation.py: the Karabo bridge server   *)
(* simulation.  Two threads share one deque(maxlen=10): the generator      *)
(* thread (generate) appends fake detector frames, the main thread         *)
(* (start_gen) answers each b'next' request on a zmq REP socket with the   *)
(* oldest frame.  server_sim and the __main__ block select the encoding    *)
(* and the detector from their options.                                    *)
(*                                                                         *)
(* CPython runs one bytecode-level operation of one thread at a time, and  *)
(* len(), deque.append and deque.popleft are each a single such operation; *)
(* every action below is one of these operations of one thread.            *)
(***************************************************************************)
EXTENDS Integers, Sequences, FiniteSets, TLC

(***************************************************************************)
(* Bounds of the model.                                                    *)
(***************************************************************************)
\* longest list of options given after the port
MaxOptions == 2
\* number of requests the clients send in one run
MaxRequests == 3
\* cap on the number of frames one run generates
MaxFrames == 14

(***************************************************************************)
(* Program constants.                                                      *)
(***************************************************************************)
PULSES == 32
MODULES == 16
MOD_X == 512
MOD_Y == 128
\* _SHAPE is evaluated once, when the module is imported
SHAPE == <<PULSES, MODULES, MOD_X, MOD_Y>>
LPD_MOD_X == 256
LPD_MOD_Y == 256
\* a variant of QueueMaxlen that is off by one
QueueMaxlenOffByOne == 10 + 1
\* deque(maxlen=10)
QueueMaxlen == 10

Encodings == {"msgpack", "pickle"}
Detectors == {"AGIPD", "LPD"}
\* what a caller may write as an option: the supported words and others
OptionWords == Encodings \cup Detectors \cup {"hdf5"}
\* what a direct caller of start_gen may pass
SerArgs == Encodings \cup {"json"}
DetArgs == Detectors \cup {"JUNGFRAU"}
\* request payloads a client may send
Payloads == {"next", "stop", "NEXT"}

ProgName == "simulation.py"
PortArg == "4545"
None == [id |-> 0, source |-> "", shape |-> <<>>]

(***************************************************************************)
(* Python values that occur as options: a str, or a list of str.           *)
(***************************************************************************)
Str(s) == [kind |-> "str", s |-> s, items |-> <<>>]
List(xs) == [kind |-> "list", s |-> "", items |-> xs]

\* all sequences over S of length at most n
SeqsUpTo(S, n) == UNION {[1..k -> S] : k \in 0..n}

\* `o in ('a', 'b')`: tuple membership compares with ==, and a list never
\* equals a str
PyIn(o, words) == o.kind = "str" /\ o.s \in words

\* a variant of PyNext that looks at the first option only
PyNextHeadOnly(options, words, default) ==
    IF options # <<>> /\ PyIn(Head(options), words) THEN Head(options).s
    ELSE default

\* next((o for o in options if o in words), default)
RECURSIVE PyNext(_, _, _)
PyNext(options, words, default) ==
    IF options = <<>> THEN default
    ELSE IF PyIn(Head(options), words) THEN Head(options).s
    ELSE PyNext(Tail(options), words, default)

\* numpy: a value of shape src can be assigned to a slot of shape dst when
\* every dimension is equal or 1 in src
Broadcastable(src, dst) ==
    /\ Len(src) = Len(dst)
    /\ \A i \in 1..Len(src) : src[i] = dst[i] \/ src[i] = 1

\* a variant of DequeAppend that adds at the left end, as appendleft does
DequeAppendLeft(q, x) ==
    IF Len(q) >= QueueMaxlen THEN <<x>> \o SubSeq(q, 1, Len(q) - 1)
    ELSE <<x>> \o q

\* deque.append on a deque with maxlen: a full deque drops its leftmost item
DequeAppend(q, x) ==
    IF Len(q) >= QueueMaxlen THEN Append(Tail(q), x) ELSE Append(q, x)

\* a variant of DequePopleft that takes the rightmost item, as deque.pop does
DequePop(q) == [item |-> q[Len(q)], rest |-> SubSeq(q, 1, Len(q) - 1)]

\* deque.popleft: the leftmost item and what is left of the deque
DequePopleft(q) == [item |-> Head(q), rest |-> Tail(q)]

\* a variant of HasRoom that tests `len(queue) <= queue.maxlen`
HasRoomInclusive(q) == Len(q) <= QueueMaxlen

\* the generator's test `len(queue) < queue.maxlen`
HasRoom(q) == Len(q) < QueueMaxlen

\* a variant of NoData that tests `len(queue) < 0`
NoDataStrict(q) == Len(q) < 0

\* the serving loop's test `len(queue) <= 0`
NoData(q) == Len(q) <= 0

\* a variant of IsNext that ignores case
IsNextAnyCase(m) == m \in {"next", "NEXT"}

\* the serving loop's test `msg == b'next'`
IsNext(m) == m = "next"

\* serialize(frame): the reply payload carries the frame in the encoding
Serialize(fn, frame) == [encoding |-> fn, frame |-> frame]

(***************************************************************************)
(* The timestamp of a frame.  Times are counted in hundredths of a second; *)
(* strings of digits are sequences of digits.                              *)
(***************************************************************************)
\* longest time the clock is followed, in hundredths of a second
MaxElapsed == 25
\* wall clock when the program starts: shortly before a second ends, and
\* shortly before the seconds get one more digit
StartTimes == {85, 990}
ClockTimes == UNION {s..(s + MaxElapsed) : s \in StartTimes}

\* str(n) for an int n >= 0
RECURSIVE Digits(_)
Digits(n) == IF n < 10 THEN <<n>> ELSE Digits(n \div 10) \o <<n % 10>>

\* int(s) for a string of digits
RECURSIVE ParseInt(_)
ParseInt(ds) ==
    IF ds = <<>> THEN 0
    ELSE 10 * ParseInt(SubSeq(ds, 1, Len(ds) - 1)) + ds[Len(ds)]

\* s[:n]
Prefix(ds, n) == SubSeq(ds, 1, IF n < Len(ds) THEN n ELSE Len(ds))

\* str(time()).split('.'): the repr of a float is the shortest decimal that
\* reads back as the same float, so trailing zeros are dropped but one
\* digit always follows the point
StrTime(t) ==
    LET h == t % 100
    IN  [sec  |-> Digits(t \div 100),
         frac |-> IF h % 10 = 0 THEN <<h \div 10>> ELSE <<h \div 10, h % 10>>]

\* a variant of TrainId that takes two digits of the fraction
TrainIdTwoDigits(sec, frac) == ParseInt(sec \o Prefix(frac, 2))

\* line 53: tid = int(sec+frac[:1])
TrainId(sec, frac) == ParseInt(sec \o Prefix(frac, 1))

\* a variant of ImageTrainId that scales by the pulse number
ImageTrainIdByPulse(tid) == [i \in 1..PULSES |-> (i - 1) * tid]

\* line 70: np.ones(_PULSES, dtype=np.uint64) * int(tid)
ImageTrainId(tid) == [i \in 1..PULSES |-> 1 * tid]

\* gen_combined_detector_data(source) called at time t with the globals
\* _MOD_X = mx, _MOD_Y = my.  The pixel values (random) and linkId (the
\* largest uint64) are left out of the frame.
GenCombinedDetectorData(src, mx, my, t) ==
    LET st == StrTime(t)
        tid == TrainId(st.sec, st.frac)
    IN  IF ~Broadcastable(<<mx, my>>, <<SHAPE[3], SHAPE[4]>>)
        THEN [raised |-> "ValueError", frame |-> None]
        ELSE [raised |-> "none",
              frame |->
                [metadata |-> [source |-> src,
                               timestamp |-> [tid |-> tid,
                                              sec |-> ParseInt(st.sec),
                                              frac |-> ParseInt(st.frac)]],
                 image |-> [shape |-> SHAPE,
                            cellId |-> [i \in 1..PULSES |-> i - 1],
                            length |-> [i \in 1..PULSES |-> 1 * 131072],
                            pulseId |-> [i \in 1..PULSES |-> i - 1],
                            trainId |-> ImageTrainId(tid),
                            status |-> [i \in 1..PULSES |-> 0]],
                 trailer |-> [status |-> 0, trainId |-> tid],
                 detector |-> [trainId |-> tid],
                 header |-> [dataId |-> 0,
                             majorTrainFormatVersion |-> 2,
                             minorTrainFormatVersion |-> 1,
                             pulseCount |-> PULSES,
                             trainId |-> tid]]]

\* the last two items of a sequence
LastTwo(s) == IF Len(s) <= 2 THEN s ELSE SubSeq(s, Len(s) - 1, Len(s))

VARIABLES
    script,     \* TRUE: the process runs simulation.py as a script
    argv,       \* sys.argv
    port,       \* the port argument
    options,    \* server_sim's *options tuple
    ser, det,   \* start_gen's arguments
    spc,        \* position of the main thread
    exitCode,   \* sys.exit status, -1 while running
    sock, ctx,  \* the REP socket and the zmq context
    source,     \* the source name returned by set_detector_params
    modX, modY, \* the module globals _MOD_X, _MOD_Y
    serialize,  \* start_gen's local `serialize`
    queue,      \* the deque shared by both threads
    gpc,        \* position of the generator thread
    data,       \* generate's local `data`
    gexc,       \* exception that ended the generator thread
    produced,   \* every frame gen_combined_detector_data returned, in order
    msg,        \* start_gen's local `msg`
    nRecv,      \* number of requests socket.recv() returned
    held,       \* the frame popped and not yet sent
    popped,     \* every frame popleft returned, in order
    sent,       \* every reply socket.send() sent, in order
    exc,        \* exception propagating out of start_gen
    cause,      \* how the serving loop was left
    now,        \* the wall clock time(), in hundredths of a second
    calls       \* the last two direct calls of gen_combined_detector_data

vars == <<script, argv, port, options, ser, det, spc, exitCode, sock, ctx,
          source, modX, modY, serialize, queue, gpc, data, gexc, produced,
          msg, nRecv, held, popped, sent, exc, cause, now, calls>>

clockVars == <<now, calls>>
launchVars == <<script, argv, port, options, ser, det, exitCode>>
setupVars == <<sock, ctx, source, modX, modY, serialize>>
genVars == <<gpc, data, gexc, produced>>
loopVars == <<msg, nRecv, held, popped, sent, exc, cause>>

\* the state of a fresh interpreter that has imported the module
Fresh ==
    /\ exitCode = -1
    /\ sock = "none" /\ ctx = "none"
    /\ source = "" /\ modX = MOD_X /\ modY = MOD_Y
    /\ serialize = "unbound"
    /\ queue = <<>>
    /\ gpc = "unstarted" /\ data = None /\ gexc = "none" /\ produced = <<>>
    /\ msg = "" /\ nRecv = 0 /\ held = None /\ popped = <<>> /\ sent = <<>>
    /\ exc = "none" /\ cause = "none"
    /\ now \in StartTimes /\ calls = <<>>

(***************************************************************************)
(* Launching: the __main__ block and server_sim.                           *)
(***************************************************************************)
\* the process is started as a script, or server_sim is called from Python
InitLaunch ==
    /\ Fresh
    /\ ser = "" /\ det = ""
    /\ \/ /\ script = TRUE
          /\ \/ argv = <<ProgName>>
             \/ \E opts \in SeqsUpTo(OptionWords, MaxOptions) :
                    argv = <<ProgName, PortArg>> \o opts
          /\ port = "" /\ options = <<>>
          /\ spc = "main"
       \/ /\ script = FALSE
          /\ argv = <<>>
          /\ port = PortArg
          /\ \E opts \in SeqsUpTo(OptionWords, MaxOptions) :
                 options = [i \in 1..Len(opts) |-> Str(opts[i])]
          /\ spc = "server_sim"

\* lines 220-224: no port given
MainUsage ==
    /\ UNCHANGED clockVars
    /\ spc = "main"
    /\ Len(argv) < 2
    /\ exitCode' = 1
    /\ spc' = "exited"
    /\ UNCHANGED <<script, argv, port, options, ser, det>>
    /\ UNCHANGED <<setupVars, queue, genVars, loopVars>>

\* lines 226-227: `_, port, *options = sys.argv; server_sim(port, options)`
\* hands the list of options over as ONE positional argument
Main ==
    /\ UNCHANGED clockVars
    /\ spc = "main"
    /\ Len(argv) >= 2
    /\ port' = argv[2]
    /\ options' = <<List(SubSeq(argv, 3, Len(argv)))>>
    /\ spc' = "server_sim"
    /\ UNCHANGED <<script, argv, ser, det, exitCode>>
    /\ UNCHANGED <<setupVars, queue, genVars, loopVars>>

\* lines 193-196
ServerSim ==
    /\ UNCHANGED clockVars
    /\ spc = "server_sim"
    /\ ser' = PyNext(options, Encodings, "msgpack")
    /\ det' = PyNext(options, Detectors, "AGIPD")
    /\ spc' = "start_gen"
    /\ UNCHANGED <<script, argv, port, options, exitCode>>
    /\ UNCHANGED <<setupVars, queue, genVars, loopVars>>

(***************************************************************************)
(* start_gen: set-up.                                                      *)
(***************************************************************************)
\* lines 143-146
Bind ==
    /\ UNCHANGED clockVars
    /\ spc = "start_gen"
    /\ ctx' = "alive"
    /\ sock' = "bound"
    /\ spc' = "set_params"
    /\ UNCHANGED <<launchVars, source, modX, modY, serialize>>
    /\ UNCHANGED <<queue, genVars, loopVars>>

\* line 148 and set_detector_params
SetDetectorParams ==
    /\ UNCHANGED clockVars
    /\ spc = "set_params"
    /\ IF det = "LPD"
       THEN /\ modX' = LPD_MOD_X
            /\ modY' = LPD_MOD_Y
            /\ source' = "FXE_DET_LPD1M-1/DET/detector"
       ELSE /\ UNCHANGED <<modX, modY>>
            /\ source' = "SPB_DET_AGIPD1M-1/DET/detector"
    /\ spc' = "select_ser"
    /\ UNCHANGED <<launchVars, sock, ctx, serialize>>
    /\ UNCHANGED <<queue, genVars, loopVars>>

\* lines 150-153: no else branch, `serialize` stays unbound for another ser
SelectSerializer ==
    /\ UNCHANGED clockVars
    /\ spc = "select_ser"
    /\ serialize' = IF ser = "msgpack" THEN "msgpack.dumps"
                    ELSE IF ser = "pickle" THEN "pickle.dumps"
                    ELSE serialize
    /\ spc' = "spawn"
    /\ UNCHANGED <<launchVars, sock, ctx, source, modX, modY>>
    /\ UNCHANGED <<queue, genVars, loopVars>>

\* lines 155-159
StartThread ==
    /\ UNCHANGED clockVars
    /\ spc = "spawn"
    /\ queue' = <<>>
    /\ gpc' = "check"
    /\ spc' = "recv"
    /\ UNCHANGED <<launchVars, setupVars, data, gexc, produced, loopVars>>

(***************************************************************************)
(* The generator thread.                                                   *)
(***************************************************************************)
\* line 120
GenCheck ==
    /\ UNCHANGED clockVars
    /\ gpc = "check"
    /\ gpc' = IF HasRoom(queue) THEN "gen" ELSE "sleep"
    /\ UNCHANGED <<launchVars, setupVars, spc, queue, data, gexc, produced,
                   loopVars>>

\* line 121, gen_combined_detector_data: the image array has _SHAPE and each
\* (pulse, module) slice is assigned a sample of size (_MOD_X, _MOD_Y);
\* a ValueError is not caught by generate and ends the thread
Generate ==
    /\ UNCHANGED clockVars
    /\ gpc = "gen"
    /\ Len(produced) < MaxFrames
    /\ IF Broadcastable(<<modX, modY>>, <<SHAPE[3], SHAPE[4]>>)
       THEN /\ data' = [id |-> Len(produced) + 1, source |-> source,
                        shape |-> SHAPE]
            /\ produced' = Append(produced, data')
            /\ gpc' = "append"
            /\ UNCHANGED gexc
       ELSE /\ gexc' = "ValueError"
            /\ gpc' = "dead"
            /\ UNCHANGED <<data, produced>>
    /\ UNCHANGED <<launchVars, setupVars, spc, queue, loopVars>>

\* lines 122-124
GenAppend ==
    /\ UNCHANGED clockVars
    /\ gpc = "append"
    /\ queue' = DequeAppend(queue, data)
    /\ gpc' = "check"
    /\ UNCHANGED <<launchVars, setupVars, spc, data, gexc, produced, loopVars>>

\* line 126
GenSleep ==
    /\ UNCHANGED clockVars
    /\ gpc = "sleep"
    /\ gpc' = "check"
    /\ UNCHANGED <<launchVars, setupVars, spc, queue, data, gexc, produced,
                   loopVars>>

(***************************************************************************)
(* start_gen: the serving loop.                                            *)
(***************************************************************************)
InLoop == spc \in {"recv", "test", "wait", "sleep", "reply", "send"}

\* line 163: recv returns as soon as some client has sent a request
Recv ==
    /\ UNCHANGED clockVars
    /\ spc = "recv"
    /\ nRecv < MaxRequests
    /\ \E m \in Payloads : msg' = m
    /\ nRecv' = nRecv + 1
    /\ spc' = "test"
    /\ UNCHANGED <<launchVars, setupVars, queue, genVars, held, popped, sent,
                   exc, cause>>

\* a variant of TestMsg without the `break`: the loop goes on to recv
TestMsgNoBreak ==
    /\ UNCHANGED clockVars
    /\ spc = "test"
    /\ spc' = IF IsNext(msg) THEN "wait" ELSE "recv"
    /\ UNCHANGED <<launchVars, setupVars, queue, genVars, loopVars>>

\* lines 164, 168-170
TestMsg ==
    /\ UNCHANGED clockVars
    /\ spc = "test"
    /\ IF IsNext(msg)
       THEN spc' = "wait" /\ UNCHANGED cause
       ELSE spc' = "finally" /\ cause' = "wrong request"
    /\ UNCHANGED <<launchVars, setupVars, queue, genVars, msg, nRecv, held,
                   popped, sent, exc>>

\* line 165
CheckData ==
    /\ UNCHANGED clockVars
    /\ spc = "wait"
    /\ spc' = IF NoData(queue) THEN "sleep" ELSE "reply"
    /\ UNCHANGED <<launchVars, setupVars, queue, genVars, loopVars>>

\* line 166
ServerSleep ==
    /\ UNCHANGED clockVars
    /\ spc = "sleep"
    /\ spc' = "wait"
    /\ UNCHANGED <<launchVars, setupVars, queue, genVars, loopVars>>

\* line 167, first half: the name `serialize` is loaded, then
\* queue.popleft() is evaluated
PopFrame ==
    /\ UNCHANGED clockVars
    /\ spc = "reply"
    /\ IF serialize = "unbound"
       THEN /\ exc' = "UnboundLocalError"
            /\ cause' = "exception"
            /\ spc' = "finally"
            /\ UNCHANGED <<queue, held, popped>>
       ELSE IF queue = <<>>
       THEN /\ exc' = "IndexError"
            /\ cause' = "exception"
            /\ spc' = "finally"
            /\ UNCHANGED <<queue, held, popped>>
       ELSE /\ held' = DequePopleft(queue).item
            /\ queue' = DequePopleft(queue).rest
            /\ popped' = Append(popped, held')
            /\ spc' = "send"
            /\ UNCHANGED <<exc, cause>>
    /\ UNCHANGED <<launchVars, setupVars, genVars, msg, nRecv, sent>>

\* line 167, second half: serialize(...) and socket.send(...)
SendReply ==
    /\ UNCHANGED clockVars
    /\ spc = "send"
    /\ sent' = Append(sent, Serialize(serialize, held))
    /\ held' = None
    /\ spc' = "recv"
    /\ UNCHANGED <<launchVars, setupVars, queue, genVars, msg, nRecv, popped,
                   exc, cause>>

\* lines 171-172: Ctrl-C reaches the main thread anywhere in the loop
Interrupt ==
    /\ UNCHANGED clockVars
    /\ InLoop
    /\ cause' = "KeyboardInterrupt"
    /\ spc' = "finally"
    /\ UNCHANGED <<launchVars, setupVars, queue, genVars, msg, nRecv, held,
                   popped, sent, exc>>

\* socket.recv() or socket.send() raises zmq.ZMQError: no except clause
\* matches, the finally block runs and the error propagates
TransportError ==
    /\ UNCHANGED clockVars
    /\ spc \in {"recv", "send"}
    /\ exc' = "ZMQError"
    /\ cause' = "exception"
    /\ spc' = "finally"
    /\ UNCHANGED <<launchVars, setupVars, queue, genVars, msg, nRecv, held,
                   popped, sent>>

\* a variant of Close without `finally`: the socket is closed only when the
\* loop ends without an exception
CloseNoFinally ==
    /\ UNCHANGED clockVars
    /\ spc = "finally"
    /\ IF exc = "none"
       THEN sock' = "closed" /\ ctx' = "destroyed" /\ spc' = "returned"
       ELSE UNCHANGED <<sock, ctx>> /\ spc' = "raised"
    /\ UNCHANGED <<launchVars, source, modX, modY, serialize>>
    /\ UNCHANGED <<queue, genVars, loopVars>>

\* a variant of Close that swallows the exception
CloseSwallows ==
    /\ UNCHANGED clockVars
    /\ spc = "finally"
    /\ sock' = "closed"
    /\ ctx' = "destroyed"
    /\ spc' = "returned"
    /\ UNCHANGED <<launchVars, source, modX, modY, serialize>>
    /\ UNCHANGED <<queue, genVars, loopVars>>

\* lines 173-175
Close ==
    /\ UNCHANGED clockVars
    /\ spc = "finally"
    /\ sock' = "closed"
    /\ ctx' = "destroyed"
    /\ spc' = IF exc = "none" THEN "returned" ELSE "raised"
    /\ UNCHANGED <<launchVars, source, modX, modY, serialize>>
    /\ UNCHANGED <<queue, genVars, loopVars>>

\* the script ends after server_sim; the generator is a daemon thread and
\* dies with the process
ProcessExit ==
    /\ UNCHANGED clockVars
    /\ script
    /\ spc \in {"returned", "raised"}
    /\ exitCode' = IF spc = "returned" THEN 0 ELSE 1
    /\ spc' = "exited"
    /\ gpc' = "dead"
    /\ UNCHANGED <<script, argv, port, options, ser, det>>
    /\ UNCHANGED <<setupVars, queue, data, gexc, produced, loopVars>>

(***************************************************************************)
(* Specifications.                                                         *)
(***************************************************************************)
\* start_gen is about to run: called by the script (which can only pass the
\* defaults, see SpecLaunch), or called from Python with any arguments
Init ==
    /\ Fresh
    /\ port = PortArg
    /\ spc = "start_gen"
    /\ \/ /\ script = TRUE
          /\ argv = <<ProgName, PortArg>>
          /\ options = <<List(<<>>)>>
          /\ ser = "msgpack" /\ det = "AGIPD"
       \/ /\ script = FALSE
          /\ argv = <<>>
          /\ options = <<>>
          /\ ser \in SerArgs
          /\ det \in DetArgs

Setup == Bind \/ SetDetectorParams \/ SelectSerializer \/ StartThread
Generator == GenCheck \/ Generate \/ GenAppend \/ GenSleep
Server == TestMsg \/ CheckData \/ ServerSleep \/ PopFrame \/ SendReply \/ Close

Next ==
    \/ Bind \/ SetDetectorParams \/ SelectSerializer \/ StartThread
    \/ GenCheck \/ Generate \/ GenAppend \/ GenSleep
    \/ Recv \/ TestMsg \/ CheckData \/ ServerSleep \/ PopFrame \/ SendReply
    \/ Interrupt \/ TransportError \/ Close \/ ProcessExit

Spec == Init /\ [][Next]_vars

\* the launch of the program up to the start of the serving loop
NextLaunch ==
    \/ MainUsage \/ Main \/ ServerSim
    \/ Bind \/ SetDetectorParams \/ SelectSerializer \/ StartThread

SpecLaunch == InitLaunch /\ [][NextLaunch]_vars

\* no interrupt and no transport error; both threads are scheduled fairly.
\* Recv is not fair: whether another request arrives is up to the clients.
NextLive ==
    \/ Bind \/ SetDetectorParams \/ SelectSerializer \/ StartThread
    \/ GenCheck \/ Generate \/ GenAppend \/ GenSleep
    \/ Recv \/ TestMsg \/ CheckData \/ ServerSleep \/ PopFrame \/ SendReply
    \/ Close \/ ProcessExit

SpecLive ==
    /\ Init
    /\ [][NextLive]_vars
    /\ WF_vars(Setup)
    /\ WF_vars(Generator)
    /\ WF_vars(Server)

(***************************************************************************)
(* gen_combined_detector_data called directly, as the clock advances.      *)
(***************************************************************************)
\* set_detector_params(det) is about to be called from Python
InitFrames ==
    /\ Fresh
    /\ script = FALSE /\ argv = <<>> /\ options = <<>> /\ port = ""
    /\ ser = ""
    /\ det \in DetArgs
    /\ spc = "set_params"

\* the wall clock advances
Tick ==
    /\ now + 1 \in ClockTimes
    /\ now' = now + 1
    /\ UNCHANGED calls
    /\ UNCHANGED <<launchVars, setupVars, spc, queue, genVars, loopVars>>

\* gen_combined_detector_data(source), with the source that
\* set_detector_params returned
CallGen ==
    /\ spc = "select_ser"
    /\ calls' = LastTwo(Append(calls,
                    [t |-> now] @@ GenCombinedDetectorData(source, modX, modY, now)))
    /\ UNCHANGED now
    /\ UNCHANGED <<launchVars, setupVars, spc, queue, genVars, loopVars>>

NextFrames == SetDetectorParams \/ Tick \/ CallGen

SpecFrames == InitFrames /\ [][NextFrames]_vars

(***************************************************************************)
(* Properties.                                                             *)
(***************************************************************************)
Supported == ser \in Encodings /\ det \in Detectors
Frames(replies) == [i \in 1..Len(replies) |-> replies[i].frame]
IsPrefix(s, t) == Len(s) <= Len(t) /\ \A i \in 1..Len(s) : s[i] = t[i]
NoDuplicates(s) == \A i, j \in 1..Len(s) : s[i] = s[j] => i = j

\* C1: the frames sent as replies are, in every reachable state, a prefix of
\* the frames the generator produced: same order, none skipped, none
\* duplicated, none reordered.
C1_SentIsPrefixOfProduced == IsPrefix(Frames(sent), produced)

\* C1 witness: two replies were sent while the generator is about to append
\* and frames are still queued.
C1_Witness ==
    /\ Len(sent) >= 2
    /\ Len(queue) >= 1
    /\ gpc = "append"
    /\ spc = "reply"

\* C2: one frame per request in lock step: replies <= requests <= replies + 1,
\* at most one popleft per request and one reply per popleft, a request is
\* received only when every earlier one was answered, and a reply is popped
\* and sent only while exactly one request is pending.
C2_LockStep ==
    /\ Len(sent) <= nRecv
    /\ nRecv <= Len(sent) + 1
    /\ Len(popped) <= nRecv
    /\ Len(sent) <= Len(popped)
    /\ Len(popped) <= Len(sent) + 1
    /\ (spc = "recv" => nRecv = Len(sent) /\ Len(popped) = Len(sent))
    /\ (spc \in {"reply", "send"} => nRecv = Len(sent) + 1)
    /\ (spc = "send" => Len(popped) = Len(sent) + 1 /\ held = popped[Len(popped)])

\* C2 witness: the third request was received after two replies and its
\* frame is popped and about to be sent.
C2_Witness ==
    /\ nRecv = 3
    /\ Len(sent) = 2
    /\ spc = "send"

\* C3: while a b'next' request waits on an empty queue no step sends a reply
\* or removes a frame; a step sends at most one reply; popleft is never
\* executed on an empty queue (no IndexError).
C3_WaitsForData ==
    /\ [](exc # "IndexError")
    /\ [][ /\ (queue = <<>> /\ held = None =>
                   sent' = sent /\ popped' = popped /\ held' = None)
           /\ Len(sent') <= Len(sent) + 1
           /\ (spc = "reply" /\ serialize # "unbound" => queue # <<>>)
         ]_vars

\* C3 witness: the second b'next' found the queue empty and the server
\* sleeps while the generator is about to append the next frame.
C3_Witness ==
    /\ spc = "sleep"
    /\ msg = "next"
    /\ queue = <<>>
    /\ Len(sent) = 1
    /\ nRecv = 2
    /\ gpc = "append"

\* the last request received was not b'next'
Rejected == nRecv > 0 /\ ~(msg = "next")

\* C4: under fair scheduling and without interrupt or transport error, for
\* every supported configuration every b'next' the server receives is
\* eventually answered.
C4_EveryNextAnswered ==
    \A n \in 1..MaxRequests :
        (Supported /\ nRecv = n /\ msg = "next") ~> (Len(sent) >= n)

\* The same for the AGIPD detector only.
NextAnsweredForAGIPD ==
    \A n \in 1..MaxRequests :
        (ser \in Encodings /\ det = "AGIPD" /\ nRecv = n /\ msg = "next")
            ~> (Len(sent) >= n)

\* For LPD the generator thread ends with a ValueError on its first frame
\* and nothing is ever produced.
LPDGeneratesNothing ==
    det = "LPD" => produced = <<>> /\ gpc \in {"unstarted", "check", "gen", "dead"}

\* C5: a request other than b'next' ends the session: it gets no reply, no
\* frame is removed for it, the loop is left, and nothing is received or
\* answered afterwards.
C5_WrongRequestEndsSession ==
    Rejected =>
        /\ spc \in {"test", "finally", "returned", "raised", "exited"}
        /\ Len(sent) = nRecv - 1
        /\ Len(popped) = Len(sent)
        /\ held = None

\* C5 witness: after two answered requests a b'stop' was received and the
\* serving loop has returned.
C5_Witness ==
    /\ msg = "stop"
    /\ nRecv = 3
    /\ Len(sent) = 2
    /\ cause = "wrong request"
    /\ spc = "returned"
    /\ sock = "closed"

\* C6: the queue never holds more than K = 10 frames.
C6_QueueAtMostTen == Len(queue) <= 10

\* C6 witness: the queue is full again after the server removed a frame, and
\* the generator idles.
C6_Witness ==
    /\ Len(queue) = 10
    /\ Len(popped) >= 1
    /\ gpc = "sleep"

\* C7: append is never executed on a full deque; a frame leaves the queue
\* only as the head taken by the server's popleft, and no frame is popped
\* twice.
C7_NoEviction ==
    /\ [](gpc = "append" => Len(queue) < QueueMaxlen)
    /\ [](NoDuplicates(popped))
    /\ [][ \A i \in 1..Len(queue) :
               (\A j \in 1..Len(queue') : queue'[j] # queue[i]) =>
                   /\ i = 1
                   /\ popped' = Append(popped, queue[i])
                   /\ held' = queue[i]
         ]_vars

\* C7 witness: the generator is about to append the frame that refills the
\* queue after a popleft, while the server holds the popped frame.
C7_Witness ==
    /\ gpc = "append"
    /\ Len(queue) = QueueMaxlen - 1
    /\ spc = "send"
    /\ Len(popped) = 2

\* C8: with an unsupported encoding or detector start_gen fails before the
\* endpoint is bound and before the generator thread is started: nothing is
\* received, generated or served.
C8_BadConfigFailsAtStartup ==
    ~Supported =>
        /\ sock = "none"
        /\ gpc = "unstarted"
        /\ nRecv = 0
        /\ produced = <<>>
        /\ sent = <<>>

\* With an unsupported encoding the failure comes only with the first
\* b'next': an UnboundLocalError, after bind, thread start and recv.
BadEncodingFailsAtFirstReply ==
    exc = "UnboundLocalError" =>
        /\ ser \notin Encodings
        /\ sock \in {"bound", "closed"}
        /\ gpc # "unstarted"
        /\ nRecv = 1 /\ msg = "next"
        /\ sent = <<>>

\* An unsupported detector raises nothing: AGIPD frames are served.
BadDetectorServesAGIPD ==
    det \notin Detectors /\ ser \in Encodings =>
        /\ exc \in {"none", "ZMQError"}
        /\ source \in {"", "SPB_DET_AGIPD1M-1/DET/detector"}

\* the options given on the command line, after the port
CliOptions == SubSeq(argv, 3, Len(argv))

\* v is the first word of opts that is in words, or default when none is
FirstOf(opts, words, default, v) ==
    LET hits == {i \in 1..Len(opts) : opts[i] \in words}
    IN  IF hits = {} THEN v = default
        ELSE \E i \in hits : (\A j \in hits : i <= j) /\ v = opts[i]

\* C9: run as `simulation.py PORT [SER] [DET]`, start_gen gets the encoding
\* and the detector named on the command line, and the default only for an
\* option that was not given.
C9_CommandLineSelects ==
    script /\ spc \in {"start_gen", "set_params", "select_ser", "spawn", "recv"} =>
        /\ FirstOf(CliOptions, Encodings, "msgpack", ser)
        /\ FirstOf(CliOptions, Detectors, "AGIPD", det)

\* Run as a script, start_gen always gets the defaults.
ScriptPassesDefaults ==
    script /\ spc \in {"start_gen", "set_params", "select_ser", "spawn", "recv"} =>
        ser = "msgpack" /\ det = "AGIPD"

\* the str options server_sim was given, with "" for any other value
Words(opts) == [i \in 1..Len(opts) |->
                    IF opts[i].kind = "str" THEN opts[i].s ELSE ""]

\* C10: server_sim passes the first option that is an encoding as ser
\* (default msgpack) and the first option that is a detector as det (default
\* AGIPD), whatever their order and whatever else is among the options.
C10_ServerSimSelects ==
    spc \in {"start_gen", "set_params", "select_ser", "spawn", "recv"} =>
        /\ FirstOf(Words(options), Encodings, "msgpack", ser)
        /\ FirstOf(Words(options), Detectors, "AGIPD", det)

\* C10 witness: server_sim(port, 'LPD', 'pickle') has called start_gen with
\* pickle and LPD, and the serializer is chosen.
C10_Witness ==
    /\ ~script
    /\ Words(options) = <<"LPD", "pickle">>
    /\ ser = "pickle" /\ det = "LPD"
    /\ serialize = "pickle.dumps"
    /\ spc = "spawn"

\* C10 second witness: an unrecognised option precedes the encoding.
UnrecognisedOptionSkipped ==
    /\ ~script
    /\ Words(options) = <<"hdf5", "pickle">>
    /\ ser = "pickle" /\ det = "AGIPD"
    /\ spc = "start_gen"

\* the image shape the detector kind d stands for
KindShape(d) ==
    IF d = "LPD" THEN <<32, 16, 256, 256>> ELSE <<32, 16, 512, 128>>

\* C11: for a supported detector kind every call of
\* gen_combined_detector_data yields a frame whose image has the shape of
\* that kind: (32, 16, 512, 128) for AGIPD, (32, 16, 256, 256) for LPD.
C11_FrameShapePerKind ==
    [][ Generate /\ det \in Detectors =>
            /\ gpc' = "append"
            /\ data'.shape = KindShape(det)
      ]_vars

\* Every frame that is produced has the AGIPD shape, and none is produced
\* for LPD.
FramesHaveImportTimeShape ==
    /\ \A i \in 1..Len(produced) : produced[i].shape = <<32, 16, 512, 128>>
    /\ (produced # <<>> => det # "LPD")
    /\ (gexc = "ValueError" => det = "LPD")

\* the serving loop has been left and its finally block is done
LoopDone == spc \in {"returned", "raised", "exited"}

\* C12: on every exit path of the serving loop (interrupt, wrong request,
\* exception) the socket is closed and the context destroyed; after an
\* interrupt start_gen returns normally, and from the interrupt on no reply
\* is sent, no frame is popped and no request is received.
C12_ClosedOnEveryExit ==
    /\ [](LoopDone => sock = "closed" /\ ctx = "destroyed")
    /\ [](cause # "none" => spc = "finally" \/ LoopDone)
    /\ [](cause = "KeyboardInterrupt" /\ LoopDone =>
              exc = "none" /\ (spc = "exited" => exitCode = 0))
    /\ [][ cause' = "KeyboardInterrupt" =>
               sent' = sent /\ popped' = popped /\ nRecv' = nRecv
         ]_vars
    /\ [][ cause = "KeyboardInterrupt" => cause' = cause ]_vars

\* C12 witness: the interrupt came between popleft and send of the second
\* reply; start_gen has returned with the socket closed and only one reply
\* was sent.
C12_Witness ==
    /\ cause = "KeyboardInterrupt"
    /\ spc = "returned"
    /\ sock = "closed" /\ ctx = "destroyed"
    /\ held # None
    /\ Len(popped) = 2
    /\ Len(sent) = 1

\* C12 second witness: the socket is closed after an exception too.
ClosedAfterException ==
    /\ exc = "UnboundLocalError"
    /\ spc = "raised"
    /\ sock = "closed"

\* C13: once the serving loop has exited on an interrupt, the generator
\* generates and appends no further frame.
C13_GeneratorStopsAfterInterrupt ==
    [][ cause = "KeyboardInterrupt" /\ LoopDone =>
            produced' = produced /\ queue' = queue
      ]_vars

\* The generator thread ends only with the process (script) or with the
\* ValueError of an LPD run, never because of the interrupt.
GeneratorEndsOnlyWithProcess ==
    gpc = "dead" => spc = "exited" \/ gexc = "ValueError"

\* Called from Python (no process exit), the generator is still running
\* after the interrupt and the queue has been filled up since.
GeneratorRunsOnAfterInterrupt ==
    /\ ~script
    /\ cause = "KeyboardInterrupt"
    /\ spc = "returned"
    /\ gpc = "sleep"
    /\ Len(queue) = QueueMaxlen

\* C16: with nothing consumed the queue of the running process holds every
\* frame generated, so it holds 10 after 10 generations (and there is no
\* eleventh); while it holds 10 the generator only
\* tests and sleeps, no frame is generated, and the queue changes only by
\* the server removing its head.
C16_FullQueueOnlyWaits ==
    /\ [](popped = <<>> /\ spc # "exited" =>
              /\ Len(produced) <= 10
              /\ Len(queue) = (IF gpc = "append" THEN Len(produced) - 1
                               ELSE Len(produced)))
    /\ [](Len(queue) = 10 => gpc \in {"check", "sleep", "dead"})
    /\ [][ Len(queue) = 10 =>
               /\ produced' = produced
               /\ \/ queue' = queue
                  \/ popped' = Append(popped, Head(queue)) /\ queue' = Tail(queue)
         ]_vars

\* C16 witness: ten frames generated, none consumed, no request received,
\* the queue holds ten and the generator sleeps.
C16_Witness ==
    /\ popped = <<>> /\ nRecv = 0
    /\ Len(produced) = 10
    /\ Len(queue) = 10
    /\ gpc = "sleep"

\* C18: the queue changes only by the generator's append, which adds
\* `data` at the tail, or by the server's popleft, which removes the head;
\* every other step (recv, test, wait, sleep, reject, idle wait, close)
\* leaves it unchanged.
C18_OnlyAppendAndPopleft ==
    [][ \/ queue' = queue
        \/ /\ gpc = "append" /\ gpc' = "check"
           /\ queue' = Append(queue, data)
           /\ Len(queue') = Len(queue) + 1
           /\ spc' = spc /\ popped' = popped /\ sent' = sent
        \/ /\ spc = "reply" /\ spc' = "send"
           /\ queue = <<held'>> \o queue'
           /\ Len(queue') = Len(queue) - 1
           /\ gpc' = gpc /\ produced' = produced
      ]_vars

\* C18 witness: the head was removed and a frame added at the tail of the
\* full queue.
C18_Witness ==
    /\ Len(queue) = 10
    /\ queue[1].id = 2
    /\ queue[10].id = 11
    /\ Len(popped) = 1

\* C19: a ZMQError from recv or send ends the serving loop: from the failing
\* call on nothing is received, popped or sent, the socket is closed, and
\* the error leaves start_gen (a script ends with a non-zero status).
C19_TransportErrorIsFatal ==
    /\ [](exc = "ZMQError" =>
              \/ spc = "finally"
              \/ spc = "raised" /\ sock = "closed"
              \/ spc = "exited" /\ sock = "closed" /\ exitCode = 1)
    /\ [][ exc' = "ZMQError" =>
               nRecv' = nRecv /\ sent' = sent /\ popped' = popped
         ]_vars
    /\ [][ exc = "ZMQError" => exc' = exc ]_vars

\* C19 witness: the send of the second reply failed; the frame was not
\* sent again and the error has left start_gen.
C19_Witness ==
    /\ exc = "ZMQError"
    /\ spc = "raised"
    /\ sock = "closed"
    /\ held # None
    /\ Len(sent) = 1
    /\ nRecv = 2

\* the generator thread has been started and the process is running
Running == gpc # "unstarted" /\ spc # "exited"

\* number of frames appended to the queue so far (none is ever evicted)
Appended == Len(popped) + Len(queue)

\* C17: under fair scheduling, whenever the queue of the running process
\* holds fewer than K frames the generator eventually appends another
\* frame (for every supported configuration), and the queue is eventually
\* full or a frame was consumed meanwhile.
C17_GeneratorRefills ==
    /\ \A n \in 0..MaxFrames :
           (Supported /\ Running /\ Len(queue) < QueueMaxlen /\ Appended = n)
               ~> (Appended > n \/ spc = "exited")
    /\ \A k \in 0..MaxRequests :
           (Supported /\ Running /\ Len(popped) = k)
               ~> (Len(queue) = QueueMaxlen \/ Len(popped) > k \/ spc = "exited")

\* The same for the AGIPD detector only.
GeneratorRefillsForAGIPD ==
    /\ \A n \in 0..MaxFrames :
           (det # "LPD" /\ Running /\ Len(queue) < QueueMaxlen /\ Appended = n)
               ~> (Appended > n \/ spc = "exited")
    /\ \A k \in 0..MaxRequests :
           (det # "LPD" /\ Running /\ Len(popped) = k)
               ~> (Len(queue) = QueueMaxlen \/ Len(popped) > k \/ spc = "exited")

\* the calls among the last two that returned a frame
Returned == {i \in 1..Len(calls) : calls[i].raised = "none"}

\* C14: in every frame gen_combined_detector_data returns, every element of
\* image.trainId and the trainId of trailer, detector and header equal the
\* metadata timestamp tid.
C14_TrainIdConsistent ==
    \A c \in Returned :
        LET f == calls[c].frame
            tid == f.metadata.timestamp.tid
        IN  /\ Len(f.image.trainId) = 32
            /\ \A i \in 1..Len(f.image.trainId) : f.image.trainId[i] = tid
            /\ f.trailer.trainId = tid
            /\ f.detector.trainId = tid
            /\ f.header.trainId = tid

\* C14 witness: two frames with different trainIds were returned.
C14_Witness ==
    /\ Returned = {1, 2}
    /\ calls[1].frame.metadata.timestamp.tid = 99
    /\ calls[2].frame.header.trainId = 100
    /\ calls[2].frame.image.trainId[32] = 100

\* C15: for two successive calls at times t1 <= t2 the second trainId is not
\* smaller than the first; each trainId is 10 * seconds + the first digit of
\* the fraction, and two trainIds are equal only for calls in the same
\* tenth of a second.
C15_TrainIdMonotone ==
    /\ \A c \in Returned :
           calls[c].frame.metadata.timestamp.tid
               = 10 * (calls[c].t \div 100) + ((calls[c].t % 100) \div 10)
    /\ (Returned = {1, 2} =>
            LET tid1 == calls[1].frame.metadata.timestamp.tid
                tid2 == calls[2].frame.metadata.timestamp.tid
            IN  /\ calls[1].t <= calls[2].t
                /\ tid1 <= tid2
                /\ (tid1 = tid2 => calls[1].t \div 10 = calls[2].t \div 10))

\* C15 witness: the first call at 9.95 s, the second at 10.05 s, where the
\* fraction is printed as "05" and the seconds have one more digit.
C15_Witness ==
    /\ Returned = {1, 2}
    /\ calls[1].t = 995 /\ calls[1].frame.metadata.timestamp.tid = 99
    /\ calls[2].t = 1005 /\ calls[2].frame.metadata.timestamp.tid = 100
    /\ calls[2].frame.metadata.timestamp.frac = 5

\* C15 second witness: two calls in the same tenth of a second collide.
TrainIdCollision ==
    /\ Returned = {1, 2}
    /\ calls[1].t < calls[2].t
    /\ calls[1].frame.metadata.timestamp.tid = calls[2].frame.metadata.timestamp.tid

====
